---- MODULE Spec2Model ----
(***************************************************************************)
(* Model of the binary BMFont decoder (src/src/lib.rs).                    *)
(*                                                                         *)
(* A buffer is a sequence of bytes (0..255).  A cursor over a buffer d is  *)
(* a number p of bytes already consumed, so the next byte is d[p+1].       *)
(* io::Result<T> is a record [ok, val, err]: val is <<v>> on success and   *)
(* <<>> on failure; err is <<kind, message>> on failure and <<>> otherwise.*)
(* Option<T> is a sequence of length at most one.  A String is the         *)
(* sequence of its UTF-8 bytes.  HashMap<u32, Char> is a function whose    *)
(* domain is the set of keys.                                              *)
(***************************************************************************)
EXTENDS Integers, Sequences, FiniteSets, TLC

VARIABLES data, pc, pos, info, common, pages, chars, kernings, result

vars == <<data, pc, pos, info, common, pages, chars, kernings, result>>

----------------------------------------------------------------------------
(* Bounds of the checked input space *)

MaxBlocks == 2
MaxHeaderLen == 5
MaxPageLen == 4
MaxRecs == 2

----------------------------------------------------------------------------
(* io::Result and the three errors the decoder can return *)

Ok(v) == [ok |-> TRUE, val |-> <<v>>, err |-> <<>>]
Err(e) == [ok |-> FALSE, val |-> <<>>, err |-> e]

InvalidHeader == <<"InvalidData", "Invalid BMFont header">>
UnexpectedEof == <<"UnexpectedEof", "failed to fill whole buffer">>
InvalidUtf8 == <<"InvalidData", "invalid utf-8 sequence">>

Magic == <<66, 77, 70, 3>>

----------------------------------------------------------------------------
(* Cursor reads (byteorder::ReadBytesExt over io::Cursor).  Every read of  *)
(* n bytes fails with UnexpectedEof unless n bytes remain.                 *)

Avail(d, p, n) == p + n <= Len(d)

ReadU8(d, p) == d[p + 1]

ReadU16(d, p) == d[p + 1] + 256 * d[p + 2]

ReadI16Unsigned(d, p) == d[p + 1] + 256 * d[p + 2]

ReadI16(d, p) ==
    LET u == d[p + 1] + 256 * d[p + 2]
    IN  IF u >= 32768 THEN u - 65536 ELSE u

ReadU32(d, p) ==
    d[p + 1] + 256 * d[p + 2] + 65536 * d[p + 3] + 16777216 * d[p + 4]

----------------------------------------------------------------------------
(* String::from_utf8: well-formed UTF-8 byte sequences *)

IsCont(b) == b >= 128 /\ b <= 191

RECURSIVE Utf8Valid(_)
Utf8Valid(s) ==
    IF s = <<>> THEN TRUE
    ELSE LET b == s[1]
             n == Len(s)
         IN  IF b <= 127 THEN Utf8Valid(Tail(s))
             ELSE IF b >= 194 /\ b <= 223
             THEN n >= 2 /\ IsCont(s[2]) /\ Utf8Valid(SubSeq(s, 3, n))
             ELSE IF b >= 224 /\ b <= 239
             THEN /\ n >= 3
                  /\ IsCont(s[2])
                  /\ IsCont(s[3])
                  /\ (b = 224 => s[2] >= 160)
                  /\ (b = 237 => s[2] <= 159)
                  /\ Utf8Valid(SubSeq(s, 4, n))
             ELSE IF b >= 240 /\ b <= 244
             THEN /\ n >= 4
                  /\ IsCont(s[2])
                  /\ IsCont(s[3])
                  /\ IsCont(s[4])
                  /\ (b = 240 => s[2] >= 144)
                  /\ (b = 244 => s[2] <= 143)
                  /\ Utf8Valid(SubSeq(s, 5, n))
             ELSE FALSE

(* str::trim_end_matches('\0') *)
TrimEndNulNone(s) == s

RECURSIVE TrimEndNul(_)
TrimEndNul(s) ==
    IF s # <<>> /\ s[Len(s)] = 0
    THEN TrimEndNul(SubSeq(s, 1, Len(s) - 1))
    ELSE s

(* BufRead::read_until(delim): the cursor position after reading up to and *)
(* including the first delim at or after p, or the end of the buffer.      *)
RECURSIVE ReadUntil(_, _, _)
ReadUntil(d, p, delim) ==
    IF p >= Len(d) THEN p
    ELSE IF d[p + 1] = delim THEN p + 1
    ELSE ReadUntil(d, p + 1, delim)

----------------------------------------------------------------------------
(* The five block decoders *)

(* The 14 fixed bytes are read first (UnexpectedEof when one is missing),  *)
(* then read_to_end takes the rest of the block as the font name.          *)
ParseInfoBlock(d) ==
    IF ~Avail(d, 0, 14) THEN Err(UnexpectedEof)
    ELSE LET font_name == SubSeq(d, 15, Len(d))
         IN  IF ~Utf8Valid(font_name) THEN Err(InvalidUtf8)
             ELSE Ok([font_size |-> ReadI16(d, 0),
                      bit_field |-> ReadU8(d, 2),
                      char_set |-> ReadU8(d, 3),
                      stretch_h |-> ReadU16(d, 4),
                      aa |-> ReadU8(d, 6),
                      padding |-> <<ReadU8(d, 7), ReadU8(d, 8),
                                    ReadU8(d, 9), ReadU8(d, 10)>>,
                      spacing |-> <<ReadU8(d, 11), ReadU8(d, 12)>>,
                      outline |-> ReadU8(d, 13),
                      font_name |-> TrimEndNul(font_name)])

(* Ten reads in a row, 15 bytes in all; each fails with UnexpectedEof when  *)
(* the block ends before it, and nothing looks at what follows the last.   *)
ParseCommonBlock(d) ==
    IF ~Avail(d, 0, 15) THEN Err(UnexpectedEof)
    ELSE Ok([line_height |-> ReadU16(d, 0),
             base |-> ReadU16(d, 2),
             scale_w |-> ReadU16(d, 4),
             scale_h |-> ReadU16(d, 6),
             pages |-> ReadU16(d, 8),
             bit_field |-> ReadU8(d, 10),
             alpha_chnl |-> ReadU8(d, 11),
             red_chnl |-> ReadU8(d, 12),
             green_chnl |-> ReadU8(d, 13),
             blue_chnl |-> ReadU8(d, 14)])

RECURSIVE PagesLoop(_, _, _)
PagesLoop(d, p, acc) ==
    IF ~(p < Len(d)) THEN Ok(acc)
    ELSE LET e == ReadUntil(d, p, 0)
             page_name == SubSeq(d, p + 1, e)
         IN  IF ~Utf8Valid(page_name) THEN Err(InvalidUtf8)
             ELSE PagesLoop(d, e, Append(acc, TrimEndNul(page_name)))

ParsePagesBlock(d) == PagesLoop(d, 0, <<>>)

ReadChar(d, p) ==
    [id |-> ReadU32(d, p),
     x |-> ReadU16(d, p + 4),
     y |-> ReadU16(d, p + 6),
     width |-> ReadU16(d, p + 8),
     height |-> ReadU16(d, p + 10),
     x_offset |-> ReadI16(d, p + 12),
     y_offset |-> ReadI16(d, p + 14),
     x_advance |-> ReadI16(d, p + 16),
     page |-> ReadU8(d, p + 18),
     chnl |-> ReadU8(d, p + 19)]

(* HashMap::insert: the new value replaces an existing one for the key *)
MapInsert(m, k, v) == (k :> v) @@ m

RECURSIVE CharsLoopWhole(_, _, _)
CharsLoopWhole(d, p, acc) ==
    IF ~(p + 20 <= Len(d)) THEN Ok(acc)
    ELSE LET ch == ReadChar(d, p)
         IN  CharsLoopWhole(d, p + 20, MapInsert(acc, ch.id, ch))

RECURSIVE CharsLoop(_, _, _)
CharsLoop(d, p, acc) ==
    IF ~(p < Len(d)) THEN Ok(acc)
    ELSE IF ~Avail(d, p, 20) THEN Err(UnexpectedEof)
    ELSE LET ch == ReadChar(d, p)
         IN  CharsLoop(d, p + 20, MapInsert(acc, ch.id, ch))

ParseCharsBlock(d) == CharsLoop(d, 0, <<>>)

RECURSIVE KerningLoop(_, _, _)
KerningLoop(d, p, acc) ==
    IF ~(p < Len(d)) THEN Ok(acc)
    ELSE IF ~Avail(d, p, 10) THEN Err(UnexpectedEof)
    ELSE KerningLoop(d, p + 10,
                     Append(acc, [first |-> ReadU32(d, p),
                                  second |-> ReadU32(d, p + 4),
                                  amount |-> ReadI16(d, p + 8)]))

ParseKerningBlock(d) == KerningLoop(d, 0, <<>>)

----------------------------------------------------------------------------
(* from_octets.  A decoder state st holds the cursor position and the five *)
(* locals info, common, pages, chars, kernings.                            *)

(* The four reads of the || chain, left to right: a read past the end      *)
(* returns through `?`, a byte that differs short-circuits to the Err.     *)
CheckHeader(d) ==
    IF ~Avail(d, 0, 1) THEN Err(UnexpectedEof)
    ELSE IF ReadU8(d, 0) # 66 THEN Err(InvalidHeader)
    ELSE IF ~Avail(d, 1, 1) THEN Err(UnexpectedEof)
    ELSE IF ReadU8(d, 1) # 77 THEN Err(InvalidHeader)
    ELSE IF ~Avail(d, 2, 1) THEN Err(UnexpectedEof)
    ELSE IF ReadU8(d, 2) # 70 THEN Err(InvalidHeader)
    ELSE IF ~Avail(d, 3, 1) THEN Err(UnexpectedEof)
    ELSE IF ReadU8(d, 3) # 3 THEN Err(InvalidHeader)
    ELSE Ok(4)

InitialState(p) ==
    [pos |-> p, info |-> <<>>, common |-> <<>>, pages |-> <<>>,
     chars |-> <<>>, kernings |-> <<>>]

(* The match on block_type: the block's decoder and the assignment *)
Assign(st, r, field) ==
    IF r.ok THEN Ok([st EXCEPT ![field] = r.val[1]]) ELSE Err(r.err)

AssignSome(st, r, field) ==
    IF r.ok THEN Ok([st EXCEPT ![field] = r.val]) ELSE Err(r.err)

RouteBlockDecodeUnknown(st, block_type, block_data) ==
    CASE block_type = 1 -> AssignSome(st, ParseInfoBlock(block_data), "info")
      [] block_type = 2 -> AssignSome(st, ParseCommonBlock(block_data), "common")
      [] block_type = 3 -> Assign(st, ParsePagesBlock(block_data), "pages")
      [] block_type = 4 -> Assign(st, ParseCharsBlock(block_data), "chars")
      [] block_type = 5 -> Assign(st, ParseKerningBlock(block_data), "kernings")
      [] OTHER -> Assign(st, ParseCharsBlock(block_data), "chars")

RouteBlockMerge(st, block_type, block_data) ==
    CASE block_type = 1 -> AssignSome(st, ParseInfoBlock(block_data), "info")
      [] block_type = 2 -> AssignSome(st, ParseCommonBlock(block_data), "common")
      [] block_type = 3 -> Assign(st, ParsePagesBlock(block_data), "pages")
      [] block_type = 4 -> Assign(st, CharsLoop(block_data, 0, st.chars), "chars")
      [] block_type = 5 ->
            Assign(st, KerningLoop(block_data, 0, st.kernings), "kernings")
      [] OTHER -> Ok(st)

RouteBlockSwallow(st, block_type, block_data) ==
    LET r == CASE block_type = 1 ->
                      AssignSome(st, ParseInfoBlock(block_data), "info")
               [] block_type = 2 ->
                      AssignSome(st, ParseCommonBlock(block_data), "common")
               [] block_type = 3 ->
                      Assign(st, ParsePagesBlock(block_data), "pages")
               [] block_type = 4 ->
                      Assign(st, ParseCharsBlock(block_data), "chars")
               [] block_type = 5 ->
                      Assign(st, ParseKerningBlock(block_data), "kernings")
               [] OTHER -> Ok(st)
    IN  IF r.ok THEN r ELSE Ok(st)

RouteBlock(st, block_type, block_data) ==
    CASE block_type = 1 -> AssignSome(st, ParseInfoBlock(block_data), "info")
      [] block_type = 2 -> AssignSome(st, ParseCommonBlock(block_data), "common")
      [] block_type = 3 -> Assign(st, ParsePagesBlock(block_data), "pages")
      [] block_type = 4 -> Assign(st, ParseCharsBlock(block_data), "chars")
      [] block_type = 5 -> Assign(st, ParseKerningBlock(block_data), "kernings")
      [] OTHER -> Ok(st)

(* One iteration of the while loop, entered with a tag byte available *)
DispatchBlockShortRead(d, st) ==
    LET block_type == ReadU8(d, st.pos)
    IN  IF ~Avail(d, st.pos + 1, 4) THEN Err(UnexpectedEof)
        ELSE LET block_size == ReadU32(d, st.pos + 1)
                 end == IF Avail(d, st.pos + 5, block_size)
                        THEN st.pos + 5 + block_size ELSE Len(d)
             IN  RouteBlock([st EXCEPT !.pos = end], block_type,
                            SubSeq(d, st.pos + 6, end))

DispatchBlock(d, st) ==
    LET block_type == ReadU8(d, st.pos)
    IN  IF ~Avail(d, st.pos + 1, 4) THEN Err(UnexpectedEof)
        ELSE LET block_size == ReadU32(d, st.pos + 1)
             IN  IF ~Avail(d, st.pos + 5, block_size) THEN Err(UnexpectedEof)
                 ELSE RouteBlock(
                          [st EXCEPT !.pos = st.pos + 5 + block_size],
                          block_type,
                          SubSeq(d, st.pos + 6, st.pos + 5 + block_size))

(* Ok(Self { info, common, pages, chars, kernings }) *)
FinalizeRequireCommon(st) ==
    IF st.common = <<>> THEN Err(InvalidHeader)
    ELSE Ok([info |-> st.info, common |-> st.common, pages |-> st.pages,
             chars |-> st.chars, kernings |-> st.kernings])

Finalize(st) ==
    Ok([info |-> st.info, common |-> st.common, pages |-> st.pages,
        chars |-> st.chars, kernings |-> st.kernings])

RECURSIVE BlockLoop(_, _)
BlockLoop(d, st) ==
    IF ~Avail(d, st.pos, 1) THEN Finalize(st)
    ELSE LET r == DispatchBlock(d, st)
         IN  IF r.ok THEN BlockLoop(d, r.val[1]) ELSE r

FromOctets(d) ==
    LET h == CheckHeader(d)
    IN  IF h.ok THEN BlockLoop(d, InitialState(h.val[1])) ELSE Err(h.err)

----------------------------------------------------------------------------
(* Input buffers.  A buffer is written as the caller's bytes: the magic,   *)
(* then blocks of a tag byte, a 4-byte little-endian length and a payload. *)

Block(tag, payload) == <<tag, Len(payload) % 256, Len(payload) \div 256, 0, 0>> \o payload

RECURSIVE Concat(_)
Concat(ss) == IF ss = <<>> THEN <<>> ELSE ss[1] \o Concat(Tail(ss))

SeqsUpTo(S, n) == UNION {[1..k -> S] : k \in 0..n}

(* id 65, x 0, y 0, width 10, height 12, offsets 0 0, advance 11, page 0, chnl 15 *)
GlyphA == <<65, 0, 0, 0,  0, 0,  0, 0,  10, 0,  12, 0,  0, 0,  0, 0,  11, 0,  0, 15>>
(* id 65 again, x 513, y 3, offsets -1 and -32768, advance -2, page 1, chnl 8 *)
GlyphA2 == <<65, 0, 0, 0,  1, 2,  3, 0,  4, 0,  5, 0,  255, 255,  0, 128,  254, 255,  1, 8>>
(* id 16843074 = 66 + 256 + 65536 + 16777216 *)
GlyphB == <<66, 1, 1, 1,  7, 0,  8, 0,  9, 1,  2, 0,  1, 0,  255, 127,  0, 0,  2, 1>>
GlyphRecs == {GlyphA, GlyphA2, GlyphB}

KernA == <<65, 0, 0, 0,  66, 0, 0, 0,  255, 255>>
KernB == <<66, 1, 0, 0,  65, 0, 0, 0,  2, 0>>

CommonBytes == <<20, 0,  16, 0,  0, 1,  0, 2,  1, 0,  0,  1, 2, 3, 4>>
InfoBytes == <<244, 255,  128,  0,  100, 0,  1,  1, 2, 3, 4,  5, 6,  0>>

InfoBlocks ==
    {Block(1, InfoBytes \o <<65, 0>>),
     Block(1, InfoBytes \o <<255>>),
     Block(1, SubSeq(InfoBytes, 1, 13))}

CommonBlocks ==
    {Block(2, CommonBytes),
     Block(2, SubSeq(CommonBytes, 1, 14)),
     Block(2, CommonBytes \o <<9>>)}

PagesBlocks ==
    {Block(3, <<97, 0>>), Block(3, <<97, 0, 98, 0>>), Block(3, <<255, 0>>)}

CharsBlocks ==
    {Block(4, <<>>), Block(4, GlyphA), Block(4, GlyphB),
     Block(4, GlyphA \o GlyphA2), Block(4, GlyphA \o <<66, 0, 0>>)}

KerningBlocks ==
    {Block(5, <<>>), Block(5, KernA), Block(5, KernA \o KernB),
     Block(5, SubSeq(KernA, 1, 5))}

UnknownBlocks ==
    {Block(200, <<1, 2, 3>>), Block(0, <<>>), Block(6, Block(4, GlyphA)),
     Block(255, <<4, 20, 0, 0, 0>>)}

AllBlocks ==
    InfoBlocks \cup CommonBlocks \cup PagesBlocks \cup CharsBlocks
        \cup KerningBlocks \cup UnknownBlocks

(* What may follow the last complete block: nothing, a tag alone, a tag    *)
(* with a partial length, a block whose payload is cut short.              *)
Trailers ==
    {<<>>, <<4>>, <<4, 20, 0, 0>>, <<4, 20, 0, 0, 0, 65, 0, 0>>,
     <<200, 0, 1, 0, 0>>, <<200, 3, 0, 0, 0, 1, 2>>}

HeaderBytes == {66, 77, 70, 3, 0}
PageBytes == {0, 97, 98, 195, 169}

Inputs ==
    {Magic \o Concat(bs) \o t : bs \in SeqsUpTo(AllBlocks, MaxBlocks), t \in Trailers}
        \cup {<<>>, <<66, 77>>, <<66, 77, 70, 4>>, <<0, 77, 70, 3>> \o Block(4, GlyphA)}
        \cup {Magic \o Block(4, GlyphA) \o b \o c \o t :
                  b \in {Block(2, SubSeq(CommonBytes, 1, 14)), Block(3, <<255, 0>>),
                         Block(4, GlyphA \o <<66, 0, 0>>)},
                  c \in {Block(2, CommonBytes), Block(3, <<97, 0>>), Block(4, GlyphB)},
                  t \in {<<>>, <<4>>}}

HeaderInputs == SeqsUpTo(HeaderBytes, MaxHeaderLen)

PagesInputs ==
    {Magic \o Block(3, p) \o t : p \in SeqsUpTo(PageBytes, MaxPageLen),
                                t \in {<<>>, Block(3, <<>>)}}

CharsPayloads(n) ==
    {Concat(rs) \o SubSeq(GlyphB, 1, k) : rs \in SeqsUpTo(GlyphRecs, n), k \in {0, 1, 4, 19}}

CharsInputs ==
    {Magic \o Block(4, p) \o Concat(q) :
        p \in CharsPayloads(MaxRecs),
        q \in SeqsUpTo({Block(4, r) : r \in CharsPayloads(MaxRecs)}, 1)}

----------------------------------------------------------------------------
(* The decoder as a state machine over one call of from_octets *)

Pending == [ok |-> FALSE, val |-> <<>>, err |-> <<>>]

Cur ==
    [pos |-> pos, info |-> info, common |-> common, pages |-> pages,
     chars |-> chars, kernings |-> kernings]

Start(d) ==
    /\ data = d
    /\ pc = "header"
    /\ pos = 0
    /\ info = <<>>
    /\ common = <<>>
    /\ pages = <<>>
    /\ chars = <<>>
    /\ kernings = <<>>
    /\ result = Pending

Init == \E d \in Inputs : Start(d)
InitHeader == \E d \in HeaderInputs : Start(d)
InitPages == \E d \in PagesInputs : Start(d)
InitChars == \E d \in CharsInputs : Start(d)

ReadHeader ==
    /\ pc = "header"
    /\ LET h == CheckHeader(data)
       IN  IF h.ok
           THEN /\ pc' = "loop"
                /\ pos' = h.val[1]
                /\ UNCHANGED result
           ELSE /\ pc' = "done"
                /\ result' = Err(h.err)
                /\ UNCHANGED pos
    /\ UNCHANGED <<data, info, common, pages, chars, kernings>>

(* A failing iteration returns from the function: the locals, the cursor   *)
(* among them, are dropped, so they are left as they were at the loop top. *)
ReadBlock ==
    /\ pc = "loop"
    /\ Avail(data, pos, 1)
    /\ LET r == DispatchBlock(data, Cur)
       IN  IF r.ok
           THEN /\ pos' = r.val[1].pos
                /\ info' = r.val[1].info
                /\ common' = r.val[1].common
                /\ pages' = r.val[1].pages
                /\ chars' = r.val[1].chars
                /\ kernings' = r.val[1].kernings
                /\ UNCHANGED <<pc, result>>
           ELSE /\ pc' = "done"
                /\ result' = Err(r.err)
                /\ UNCHANGED <<pos, info, common, pages, chars, kernings>>
    /\ UNCHANGED data

Finish ==
    /\ pc = "loop"
    /\ ~Avail(data, pos, 1)
    /\ pc' = "done"
    /\ result' = Finalize(Cur)
    /\ UNCHANGED <<data, pos, info, common, pages, chars, kernings>>

Next == ReadHeader \/ ReadBlock \/ Finish

Spec == Init /\ [][Next]_vars
SpecHeader == InitHeader /\ [][Next]_vars
SpecPages == InitPages /\ [][Next]_vars
SpecChars == InitChars /\ [][Next]_vars

(* The state machine computes from_octets *)
MachineIsFromOctets == pc = "done" => result = FromOctets(data)

----------------------------------------------------------------------------
(* The binary layout, stated independently of the decoder: little-endian   *)
(* numbers and the framing of a buffer into tagged, length-prefixed blocks *)

RECURSIVE LE(_, _, _)
LE(d, p, n) == IF n = 0 THEN 0 ELSE d[p + 1] + 256 * LE(d, p + 1, n - 1)

(* v is the two's-complement reading of the 16-bit pattern u *)
IsI16Of(v, u) == v >= -32768 /\ v <= 32767 /\ (v - u) % 65536 = 0

HasMagic(d) == Len(d) >= 4 /\ SubSeq(d, 1, 4) = Magic

RECURSIVE FramesFrom(_, _)
FramesFrom(d, p) ==
    IF p >= Len(d) THEN <<>>
    ELSE IF p + 5 > Len(d) \/ p + 5 + LE(d, p + 1, 4) > Len(d)
    THEN <<[start |-> p, tag |-> d[p + 1], len |-> -1, complete |-> FALSE]>>
    ELSE <<[start |-> p, tag |-> d[p + 1], len |-> LE(d, p + 1, 4),
            complete |-> TRUE]>>
            \o FramesFrom(d, p + 5 + LE(d, p + 1, 4))

Frames(d) == FramesFrom(d, 4)

Payload(d, f) == SubSeq(d, f.start + 6, f.start + 5 + f.len)

FrameEnd(f) == f.start + 5 + f.len

DecodeResult(d, f) ==
    CASE f.tag = 1 -> ParseInfoBlock(Payload(d, f))
      [] f.tag = 2 -> ParseCommonBlock(Payload(d, f))
      [] f.tag = 3 -> ParsePagesBlock(Payload(d, f))
      [] f.tag = 4 -> ParseCharsBlock(Payload(d, f))
      [] f.tag = 5 -> ParseKerningBlock(Payload(d, f))
      [] OTHER -> Ok(<<>>)

FrameFails(d, f) == ~f.complete \/ ~DecodeResult(d, f).ok

FrameError(d, f) ==
    IF ~f.complete THEN UnexpectedEof ELSE DecodeResult(d, f).err

(* index of the first block whose read or decode fails, 0 if there is none *)
FirstBad(d) ==
    LET fs == Frames(d)
        bad == {i \in 1..Len(fs) : FrameFails(d, fs[i])}
    IN  IF bad = {} THEN 0 ELSE CHOOSE i \in bad : \A j \in bad : i <= j

(* index of the last block with the tag, 0 if there is none *)
LastWithTag(d, tag) ==
    LET fs == Frames(d)
        has == {i \in 1..Len(fs) : fs[i].tag = tag}
    IN  IF has = {} THEN 0 ELSE CHOOSE i \in has : \A j \in has : j <= i

InsertAt(d, p, b) == SubSeq(d, 1, p) \o b \o SubSeq(d, p + 1, Len(d))

EmptyFont ==
    [info |-> <<>>, common |-> <<>>, pages |-> <<>>, chars |-> <<>>,
     kernings |-> <<>>]

----------------------------------------------------------------------------
(* C1: every buffer that does not begin with the magic B,M,F,3 (the empty  *)
(* buffer and proper prefixes of the magic included) fails with the        *)
(* invalid-header error and returns no descriptor.                         *)
C1_NoMagicIsInvalidHeader ==
    (pc = "done" /\ ~HasMagic(data)) => result = Err(InvalidHeader)

----------------------------------------------------------------------------
(* C2: inserting a complete block with a tag outside 1..5 at a block       *)
(* boundary (a position the dispatcher has at the top of its loop) leaves  *)
(* the outcome of from_octets unchanged, and dispatching that block moves  *)
(* the cursor by exactly 5+L and changes nothing else.                     *)
InsertedBlocks ==
    {Block(t, p) : t \in {0, 6, 200, 255},
                   p \in {<<>>, <<1, 2, 3>>, <<255>>, GlyphA,
                          <<4, 20, 0, 0, 0>>, Block(4, GlyphA)}}

(* every block boundary of the framing: the start of each block and the    *)
(* end of each complete block (4, the end of the magic, when there is none) *)
Boundaries(d) ==
    {4} \cup {Frames(d)[i].start : i \in 1..Len(Frames(d))}
        \cup {FrameEnd(Frames(d)[i]) :
                  i \in {j \in 1..Len(Frames(d)) : Frames(d)[j].complete}}

C2_UnknownBlockSkipped ==
    /\ pc = "loop" =>
          \A ub \in InsertedBlocks :
              LET r == DispatchBlock(InsertAt(data, pos, ub), Cur)
              IN  r.ok /\ r.val[1] = [Cur EXCEPT !.pos = pos + Len(ub)]
    /\ (pc = "done" /\ HasMagic(data)) =>
          \A b \in Boundaries(data) : \A ub \in InsertedBlocks :
              FromOctets(InsertAt(data, b, ub)) = result

C2_Witness ==
    /\ pc = "done"
    /\ result.ok
    /\ result.val[1].chars # <<>>
    /\ \E i \in 1..Len(Frames(data)) :
          /\ Frames(data)[i].tag \notin 1..5
          /\ Frames(data)[i].len > 0
          /\ i < LastWithTag(data, 4)

----------------------------------------------------------------------------
(* C3: after a successful decode each of info, common, pages, chars and    *)
(* kernings is exactly what the LAST block of its tag decodes to; earlier  *)
(* blocks of the tag leave no trace.                                       *)
LastDecoded(d, tag) == DecodeResult(d, Frames(d)[LastWithTag(d, tag)]).val

C3_LastBlockWins ==
    (pc = "done" /\ result.ok) =>
        LET f == result.val[1]
        IN  /\ LastWithTag(data, 1) # 0 => f.info = LastDecoded(data, 1)
            /\ LastWithTag(data, 2) # 0 => f.common = LastDecoded(data, 2)
            /\ LastWithTag(data, 3) # 0 => <<f.pages>> = LastDecoded(data, 3)
            /\ LastWithTag(data, 4) # 0 => <<f.chars>> = LastDecoded(data, 4)
            /\ LastWithTag(data, 5) # 0 => <<f.kernings>> = LastDecoded(data, 5)

C3_Witness ==
    /\ pc = "done"
    /\ result.ok
    /\ LET fs == Frames(data)
       IN  \E i \in 1..Len(fs) :
              /\ fs[i].tag = 4
              /\ fs[i].len > 0
              /\ i < LastWithTag(data, 4)
              /\ DOMAIN DecodeResult(data, fs[i]).val[1]
                    \cap DOMAIN result.val[1].chars = {}

----------------------------------------------------------------------------
(* C4: with a valid magic, from_octets succeeds only if the blocks tile    *)
(* the buffer exactly; a tag byte followed by fewer than 4 length bytes or *)
(* by a length larger than what remains is the truncated-block error.      *)
C4_TruncatedBlock ==
    (pc = "done" /\ HasMagic(data)) =>
        LET fs == Frames(data)
            n == Len(fs)
        IN  /\ result.ok <=> FirstBad(data) = 0
            /\ result.ok => (n = 0 \/ FrameEnd(fs[n]) = Len(data))
            /\ (n > 0 /\ ~fs[n].complete /\ FirstBad(data) = n)
                  => result = Err(UnexpectedEof)

C4_Witness ==
    /\ pc = "done"
    /\ HasMagic(data)
    /\ result = Err(UnexpectedEof)
    /\ LET fs == Frames(data)
       IN  /\ Len(fs) >= 2
           /\ FirstBad(data) = Len(fs)
           /\ ~fs[Len(fs)].complete
           /\ Len(data) - fs[Len(fs)].start <= 4

----------------------------------------------------------------------------
(* C5: from_octets succeeds on a Common block only when its declared       *)
(* length is exactly 15; every other length is the truncated-block error.  *)
C5_CommonLengthExact ==
    (pc = "done" /\ result.ok) =>
        \A i \in 1..Len(Frames(data)) :
            Frames(data)[i].tag = 2 => Frames(data)[i].len = 15

----------------------------------------------------------------------------
(* C6: a buffer of complete Chars blocks fails, with the truncated-block   *)
(* error, exactly when some block's length is not a multiple of 20; a      *)
(* block of length 20*k decodes after reading exactly its k records.       *)
OnlyCompleteChars(d) ==
    /\ HasMagic(d)
    /\ \A i \in 1..Len(Frames(d)) : Frames(d)[i].tag = 4 /\ Frames(d)[i].complete

RecordIds(p) == {LE(p, 20 * j, 4) : j \in 0..((Len(p) \div 20) - 1)}

C6_CharsLengthMultipleOf20 ==
    (pc = "done" /\ OnlyCompleteChars(data)) =>
        LET fs == Frames(data)
            partial == {i \in 1..Len(fs) : fs[i].len % 20 # 0}
        IN  /\ partial # {} <=> result = Err(UnexpectedEof)
            /\ partial = {} <=> result.ok
            /\ (result.ok /\ Len(fs) > 0) =>
                  DOMAIN result.val[1].chars = RecordIds(Payload(data, fs[Len(fs)]))

C6_Witness ==
    /\ pc = "done"
    /\ OnlyCompleteChars(data)
    /\ result = Err(UnexpectedEof)
    /\ Len(Frames(data)) = 1
    /\ Frames(data)[1].len > 20
    /\ Frames(data)[1].len % 20 # 0

----------------------------------------------------------------------------
(* C7: an error is the error of the first failing block in file order, no  *)
(* descriptor is returned with it, the cursor never passes that block and  *)
(* the bytes after that block do not influence the outcome.                *)
Tails ==
    {<<>>, <<9>>, Block(1, InfoBytes), Block(2, CommonBytes),
     Block(3, <<97, 0>>), Block(4, GlyphA), Block(5, KernA),
     Block(4, <<1>>)}

C7_FirstErrorTerminal ==
    (pc = "done" /\ ~result.ok) =>
        /\ result.val = <<>>
        /\ HasMagic(data) =>
              LET fs == Frames(data)
                  i == FirstBad(data)
              IN  /\ i # 0
                  /\ result.err = FrameError(data, fs[i])
                  /\ pos = fs[i].start
                  /\ fs[i].complete =>
                        \A t \in Tails :
                            FromOctets(SubSeq(data, 1, FrameEnd(fs[i])) \o t)
                                = result

C7_Witness ==
    /\ pc = "done"
    /\ ~result.ok
    /\ HasMagic(data)
    /\ LET fs == Frames(data)
           i == FirstBad(data)
       IN  /\ i > 1
           /\ fs[i].complete
           /\ \E j \in (i + 1)..Len(fs) :
                 fs[j].tag = fs[i].tag /\ ~FrameFails(data, fs[j])

----------------------------------------------------------------------------
(* C8: no block is required.  After a successful decode info (common) is   *)
(* set exactly when the buffer has a tag-1 (tag-2) block, and pages, chars *)
(* and kernings are empty when no block of tag 3, 4, 5 exists; the bare    *)
(* magic decodes to the empty descriptor.                                  *)
C8_AbsenceIsNotAnError ==
    /\ (pc = "done" /\ result.ok) =>
          LET f == result.val[1]
          IN  /\ f.info # <<>> <=> LastWithTag(data, 1) # 0
              /\ f.common # <<>> <=> LastWithTag(data, 2) # 0
              /\ LastWithTag(data, 3) = 0 => f.pages = <<>>
              /\ LastWithTag(data, 4) = 0 => f.chars = <<>>
              /\ LastWithTag(data, 5) = 0 => f.kernings = <<>>
    /\ (pc = "done" /\ HasMagic(data) /\ FirstBad(data) = 0) => result.ok
    /\ (pc = "done" /\ data = Magic) => result = Ok(EmptyFont)

C8_Witness ==
    /\ pc = "done"
    /\ result.ok
    /\ result.val[1].info = <<>>
    /\ result.val[1].common = <<>>
    /\ result.val[1].pages = <<>>
    /\ result.val[1].kernings # <<>>

----------------------------------------------------------------------------
(* C9: in a returned descriptor every chars entry (k, g) has g.id = k and  *)
(* g holds the little-endian fields of the LAST record with id k of the    *)
(* last Chars block; there is one entry per distinct id of that block.     *)
GlyphIsRecord(g, p, o) ==
    /\ g.id = LE(p, o, 4)
    /\ g.x = LE(p, o + 4, 2)
    /\ g.y = LE(p, o + 6, 2)
    /\ g.width = LE(p, o + 8, 2)
    /\ g.height = LE(p, o + 10, 2)
    /\ IsI16Of(g.x_offset, LE(p, o + 12, 2))
    /\ IsI16Of(g.y_offset, LE(p, o + 14, 2))
    /\ IsI16Of(g.x_advance, LE(p, o + 16, 2))
    /\ g.page = p[o + 19]
    /\ g.chnl = p[o + 20]

C9_GlyphFields ==
    (pc = "done" /\ result.ok /\ LastWithTag(data, 4) # 0) =>
        LET m == result.val[1].chars
            p == Payload(data, Frames(data)[LastWithTag(data, 4)])
            k == Len(p) \div 20
        IN  /\ DOMAIN m = RecordIds(p)
            /\ Cardinality(DOMAIN m) <= k
            /\ \A key \in DOMAIN m :
                  LET js == {j \in 0..(k - 1) : LE(p, 20 * j, 4) = key}
                      last == CHOOSE j \in js : \A j2 \in js : j2 <= j
                  IN  m[key].id = key /\ GlyphIsRecord(m[key], p, 20 * last)

C9_Witness ==
    /\ pc = "done"
    /\ result.ok
    /\ LastWithTag(data, 4) > 1
    /\ LET m == result.val[1].chars
           p == Payload(data, Frames(data)[LastWithTag(data, 4)])
       IN  /\ Cardinality(DOMAIN m) < Len(p) \div 20
           /\ \E key \in DOMAIN m : m[key].x_offset < 0 /\ m[key].x = 513

----------------------------------------------------------------------------
(* C10: a Pages block of valid text decodes to the runs of its payload     *)
(* split at each NUL, in order, without the NUL: one name per NUL plus one *)
(* for an unterminated final run, no name contains a NUL, the names with   *)
(* their terminators spell the payload, an empty payload gives no names.   *)
RECURSIVE NulCount(_)
NulCount(s) ==
    IF s = <<>> THEN 0
    ELSE (IF s[1] = 0 THEN 1 ELSE 0) + NulCount(Tail(s))

RECURSIVE JoinNul(_)
JoinNul(names) ==
    IF names = <<>> THEN <<>> ELSE names[1] \o <<0>> \o JoinNul(Tail(names))

Unterminated(p) == p # <<>> /\ p[Len(p)] # 0

C10_PagesSplitAtNul ==
    (/\ pc = "done"
     /\ HasMagic(data)
     /\ \A i \in 1..Len(Frames(data)) :
           /\ Frames(data)[i].tag = 3
           /\ Frames(data)[i].complete
           /\ Utf8Valid(Payload(data, Frames(data)[i]))
     /\ Frames(data) # <<>>) =>
        LET p == Payload(data, Frames(data)[Len(Frames(data))])
            names == result.val[1].pages
        IN  /\ result.ok
            /\ Len(names) = NulCount(p) + (IF Unterminated(p) THEN 1 ELSE 0)
            /\ \A i \in 1..Len(names) : \A j \in 1..Len(names[i]) : names[i][j] # 0
            /\ JoinNul(names) = (IF Unterminated(p) THEN p \o <<0>> ELSE p)
            /\ p = <<>> => names = <<>>

C10_Witness ==
    /\ pc = "done"
    /\ result.ok
    /\ Len(Frames(data)) = 1
    /\ Frames(data)[1].tag = 3
    /\ Unterminated(Payload(data, Frames(data)[1]))
    /\ Len(result.val[1].pages) = 3
    /\ result.val[1].pages[2] = <<>>

====
